---- MODULE Spec2Model ----
(***************************************************************************)
(* Training scripts of the pendulum agents: the TRPO update with its       *)
(* backtracking line search (pendulum/trpo/train.py), the TNPG loop        *)
(* (pendulum/tnpg/train.py) and the DDPG loop (pendulum/ddpg/train.py).    *)
(*                                                                         *)
(* Real numbers are scaled integers.  Tensors that the update can drive    *)
(* out of the finite range are extended reals: records [c, v] with c one   *)
(* of "fin", "inf", "nan".  Powers of one half are kept as exponents, so a *)
(* value m * 2^-e is the record [m, e].                                    *)
(***************************************************************************)
EXTENDS Integers, Sequences, FiniteSets

(* ------------------------------ bounds -------------------------------- *)

\* args.max_iter_num, scaled down
MaxIterNum == 2
\* args.total_sample_size, scaled down
TotalSampleSize == 2
\* the environment reports done at the latest after this many steps of an episode
MaxEpLen == 2
\* range(200) of the tnpg episode loop, scaled down
EpCap == 2
\* maxlen of the ddpg replay memory, scaled down
MemCap == 2

(* ------------------------- program constants -------------------------- *)

\* for i in range(10)
MaxAttempts == 10
\* recent_rewards = deque(maxlen=100), in model units
WindowLen == 2
\* args.max_kl, in model units
MaxKL == 2
\* args.goal_score, in model units
GoalScore == 1
\* beta = 0.5 = 2^-1
BetaExp == 1
\* alpha = 0.5 = 2^-1
AlphaExp == 1
\* args.gamma as the fraction 1 / GammaDen
GammaDen == 2

RECURSIVE Pow2(_)
Pow2(n) == IF n <= 0 THEN 1 ELSE 2 * Pow2(n - 1)

\* one unit of parameter space: every halving of a step stays an integer
Unit == Pow2(MaxAttempts)

\* the longest batch a rollout phase can collect
MaxBatchLen == TotalSampleSize + MaxEpLen

\* returns are kept in multiples of 2^-MaxBatchLen
RetScale == Pow2(MaxBatchLen)

(* --------------------------- extended reals --------------------------- *)

Fin(n) == [c |-> "fin", v |-> n]
NaN == [c |-> "nan", v |-> 0]
PInf == [c |-> "inf", v |-> 1]
NInf == [c |-> "inf", v |-> -1]

IsFin(x) == x.c = "fin"

Sign(n) == IF n > 0 THEN 1 ELSE IF n < 0 THEN -1 ELSE 0

FAdd(x, y) ==
    IF x.c = "nan" \/ y.c = "nan" THEN NaN
    ELSE IF x.c = "inf" /\ y.c = "inf" THEN (IF x.v = y.v THEN x ELSE NaN)
    ELSE IF x.c = "inf" THEN x
    ELSE IF y.c = "inf" THEN y
    ELSE Fin(x.v + y.v)

FNeg(x) == IF x.c = "nan" THEN NaN ELSE [c |-> x.c, v |-> -x.v]

FSub(x, y) == FAdd(x, FNeg(y))

FMul(x, y) ==
    IF x.c = "nan" \/ y.c = "nan" THEN NaN
    ELSE IF x.c = "inf" \/ y.c = "inf"
         THEN (IF x.v = 0 \/ y.v = 0 THEN NaN
               ELSE IF Sign(x.v) * Sign(y.v) > 0 THEN PInf ELSE NInf)
    ELSE Fin(x.v * y.v)

\* x < y as IEEE compares: false as soon as one side is NaN
FLess(x, y) ==
    IF x.c = "nan" \/ y.c = "nan" THEN FALSE
    ELSE IF x.c = "inf" THEN x.v < 0 /\ ~(y.c = "inf" /\ y.v < 0)
    ELSE IF y.c = "inf" THEN y.v > 0
    ELSE x.v < y.v

\* a * 2^e > b for integers a, b below 2^15 in size, without overflow
ScaledGT(a, e, b) ==
    IF e > 15 THEN (IF a = 0 THEN 0 > b ELSE a > 0)
    ELSE a * Pow2(e) > b

\* m * 2^-e as an extended real (m a multiple of 2^e when finite)
SVal(s) == IF IsFin(s.m) THEN Fin(s.m.v \div Pow2(s.e)) ELSE s.m

\* product of two values m * 2^-e
SMul(a, b) == [m |-> FMul(a.m, b.m), e |-> a.e + b.e]

One == [m |-> Fin(1), e |-> 0]
Beta == [m |-> Fin(1), e |-> BetaExp]

\* num / den > 2^-AlphaExp, den = den.m * 2^-den.e, as numpy divides and compares
RatioGT(num, den) ==
    IF num.c = "nan" \/ den.m.c = "nan" THEN FALSE
    ELSE IF den.m.c = "inf" THEN FALSE
    ELSE IF num.c = "inf"
         THEN (IF den.m.v >= 0 THEN num.v > 0 ELSE num.v < 0)
    ELSE IF den.m.v = 0 THEN num.v > 0
    ELSE IF den.m.v > 0 THEN ScaledGT(num.v, den.e + AlphaExp, den.m.v)
    ELSE ScaledGT(-num.v, den.e + AlphaExp, -den.m.v)

\* torch.sqrt(2 * args.max_kl / sHs)
StepSize(sHs) ==
    IF sHs < 0 THEN NaN
    ELSE IF sHs = 0 THEN PInf
    ELSE Fin(CHOOSE r \in 0..(2 * MaxKL) : r * r = (2 * MaxKL) \div sHs)

(* ------------------------------ deques -------------------------------- *)

\* deque(maxlen=n).append(x)
AppendMax(q, x, n) == IF Len(q) < n THEN Append(q, x) ELSE Append(Tail(q), x)

RECURSIVE SumSeq(_)
SumSeq(q) == IF q = <<>> THEN 0 ELSE Head(q) + SumSeq(Tail(q))

\* np.mean(recent_rewards) > goal; the mean of an empty window is NaN
MeanGT(q, goal) == Len(q) > 0 /\ SumSeq(q) > goal * Len(q)

(* ------------------------------ returns ------------------------------- *)

\* running = reward[t] + gamma * running * mask[t], scanned from the back
RECURSIVE Running(_, _)
Running(batch, k) ==
    IF k > Len(batch) THEN 0
    ELSE batch[k].reward * RetScale
         + (Running(batch, k + 1) * batch[k].mask) \div GammaDen

get_returns(batch) == [k \in 1..Len(batch) |-> Running(batch, k)]

(* ------------------------------- state -------------------------------- *)

VARIABLES
    prog,               \* which script runs: "trpo", "tnpg" or "ddpg"
    batch_size,         \* args.batch_size (ddpg)
    pc,                 \* position in main / train_model
    iter,               \* passes of the outer for loop started so far
    steps,              \* steps
    done,               \* done
    score,              \* score
    ep_len,             \* steps the environment has taken since env.reset()
    ep_step,            \* passes of "for _ in range(200)" in this episode (tnpg)
    after_done,         \* env.step calls of this episode issued after done
    ep_scores,          \* scores this episode has appended to recent_rewards
    trajectories,       \* trajectories (trpo), memory (tnpg)
    recent_rewards,     \* recent_rewards
    actor,              \* flat parameters of the live actor
    saved,              \* number of torch.save calls
    trained,            \* train_model calls in the current iteration
    returns,            \* train_model: returns
    sHs,                \* train_model: sHs
    params,             \* train_model: params
    old_actor,          \* train_model: flat parameters of old_actor
    maximal_step,       \* train_model: maximal_step
    actor_loss,         \* train_model: actor_loss
    expected_improve_0, \* train_model: expected_improve as line 73 computes it
    expected_improve,   \* train_model: expected_improve
    new_actor_loss,     \* train_model: new_actor_loss
    kl,                 \* train_model: kl
    t,                  \* train_model: t
    i,                  \* train_model: passes of the for loop completed
    flag,               \* train_model: flag
    writes,             \* train_model: candidates written into the live actor
    memory,             \* ddpg: memory
    mini_batch,         \* ddpg: positions of memory drawn by random.sample
    opt_steps,          \* ddpg: optimizer steps taken on actor and critic
    target_updates      \* ddpg: soft_target_update calls

cfg == <<prog, batch_size>>
epVars == <<done, score, ep_len, ep_step, after_done, ep_scores>>
lsVars == <<returns, sHs, params, old_actor, maximal_step, actor_loss,
            expected_improve_0, expected_improve, new_actor_loss, kl, t, i,
            flag, writes>>
ddpgVars == <<memory, mini_batch, opt_steps, target_updates>>
vars == <<cfg, pc, iter, steps, epVars, trajectories, recent_rewards, actor,
          saved, trained, lsVars, ddpgVars>>

\* the values the locals of train_model hold outside a call
NoReturns == <<>>
NoScaled == [m |-> Fin(0), e |-> 0]

Init ==
    /\ prog \in {"trpo", "tnpg", "ddpg"}
    /\ batch_size \in (IF prog = "ddpg" THEN 1..MemCap ELSE {1})
    /\ pc = "iter_start"
    /\ iter = 0
    /\ steps = 0
    /\ done = FALSE
    /\ score = 0
    /\ ep_len = 0
    /\ ep_step = 0
    /\ after_done = 0
    /\ ep_scores = 0
    /\ trajectories = <<>>
    /\ recent_rewards = <<>>
    /\ actor = Fin(0)
    /\ saved = 0
    /\ trained = 0
    /\ returns = NoReturns
    /\ sHs = 1
    /\ params = Fin(0)
    /\ old_actor = Fin(0)
    /\ maximal_step = Fin(0)
    /\ actor_loss = Fin(0)
    /\ expected_improve_0 = Fin(0)
    /\ expected_improve = NoScaled
    /\ new_actor_loss = Fin(0)
    /\ kl = Fin(0)
    /\ t = One
    /\ i = 0
    /\ flag = FALSE
    /\ writes = 0
    /\ memory = <<>>
    /\ mini_batch = {}
    /\ opt_steps = 0
    /\ target_updates = 0

(* ----------------------- inputs from outside -------------------------- *)

Rewards == {0, 1}
\* curvature along the search direction
Curvatures == {-1, 0, 1}
\* conjugate-gradient result (one flat component)
SearchDirs == {Unit}
\* gradient of the surrogate loss (one flat component); a zero gradient has
\* no search direction other than zero
LossGrads == {1}

\* what env.step may answer for done: anything, but done at the latest on
\* step MaxEpLen of the episode
DoneAnswers == IF ep_len + 1 >= MaxEpLen THEN {TRUE} ELSE BOOLEAN

\* outcomes <<surrogate loss, kl>> of the forward passes at a candidate: any
\* finite pair at finite parameters, no finite kl at parameters that are not
Outcomes(cand) ==
    IF IsFin(cand)
    THEN {Fin(0), Fin((3 * Unit) \div 16), Fin(2 * Unit)} \X {Fin(MaxKL - 1), Fin(MaxKL)}
    ELSE IF cand.c = "nan" THEN {<<NaN, NaN>>}
    ELSE {<<NaN, NaN>>, <<Fin(0), PInf>>}

(* --------------------------- shared pieces ---------------------------- *)

\* flat_params(model): the parameters of a model as one flat vector
flat_params(model) == model

\* update_model(model, new_params): the parameters the model holds afterwards
update_model(new_params) == new_params

\* line 158: mask = 0 if done else 1 (MaskFlipped: the two values swapped)
MaskFlipped(d) == IF d THEN 1 ELSE 0
Mask(d) == IF d THEN 0 ELSE 1

\* the transition appended by one pass of a step loop
Transition(reward, d) ==
    [it |-> iter, n |-> steps + 1, reward |-> reward, mask |-> Mask(d), done |-> d]

\* line 136: trajectories = deque() at the top of an iteration
\* (FreshBatchKept: the deque made once, outside the loop)
FreshBatchKept == trajectories
FreshBatch == <<>>

\* while steps < args.total_sample_size
QuotaOpen == steps < TotalSampleSize

\* lines 181-183: where main goes after torch.save: break
\* (AfterSaveContinue: the break left out)
AfterSaveContinue == "iter_start"
AfterSave == "exit"

(* ---------------------------- trpo: main ------------------------------ *)

\* lines 135-137: for iter in range(args.max_iter_num): trajectories = deque(); steps = 0
TrpoIterStart ==
    /\ prog = "trpo" /\ pc = "iter_start" /\ iter < MaxIterNum
    /\ iter' = iter + 1
    /\ trajectories' = FreshBatch
    /\ steps' = 0
    /\ trained' = 0
    /\ pc' = "rollout"
    /\ UNCHANGED <<cfg, epVars, recent_rewards, actor, saved, lsVars, ddpgVars>>

\* the for loop runs out
TrpoLoopEnd ==
    /\ prog = "trpo" /\ pc = "iter_start" /\ iter >= MaxIterNum
    /\ pc' = "exit"
    /\ UNCHANGED <<cfg, iter, steps, epVars, trajectories, recent_rewards, actor,
                   saved, trained, lsVars, ddpgVars>>

\* lines 139-145: while steps < args.total_sample_size: ... state = env.reset()
TrpoEpisodeStart ==
    /\ prog = "trpo" /\ pc = "rollout" /\ QuotaOpen
    /\ done' = FALSE
    /\ score' = 0
    /\ ep_len' = 0
    /\ after_done' = 0
    /\ ep_scores' = 0
    /\ pc' = "step"
    /\ UNCHANGED <<cfg, iter, steps, ep_step, trajectories, recent_rewards, actor,
                   saved, trained, lsVars, ddpgVars>>

\* lines 147-167: one pass of "while not done"
TrpoStep ==
    /\ prog = "trpo" /\ pc = "step" /\ ~done
    /\ \E reward \in Rewards, d \in DoneAnswers :
        /\ steps' = steps + 1
        /\ ep_len' = ep_len + 1
        /\ after_done' = after_done + (IF ep_scores > 0 THEN 1 ELSE 0)
        /\ done' = d
        /\ trajectories' = Append(trajectories, Transition(reward, d))
        /\ score' = score + reward
        /\ recent_rewards' = IF d THEN AppendMax(recent_rewards, score + reward, WindowLen)
                             ELSE recent_rewards
        /\ ep_scores' = ep_scores + (IF d THEN 1 ELSE 0)
        /\ pc' = IF d THEN "rollout" ELSE "step"
    /\ UNCHANGED <<cfg, iter, ep_step, actor, saved, trained, lsVars, ddpgVars>>

(* ------------------------- trpo: train_model -------------------------- *)

\* lines 31-82: returns, gradient, search direction, curvature, maximal step,
\* snapshot of the parameters into old_actor
TrpoTrainEnter ==
    /\ prog = "trpo" /\ pc = "rollout" /\ ~QuotaOpen
    /\ trained' = trained + 1
    /\ returns' = get_returns(trajectories)
    /\ \E c \in Curvatures, search_dir \in SearchDirs, grad \in LossGrads :
        /\ sHs' = c
        /\ maximal_step' = FMul(StepSize(c), Fin(search_dir))
        /\ expected_improve_0' = FMul(Fin(grad), maximal_step')
        /\ expected_improve' = [m |-> expected_improve_0', e |-> 0]
    /\ actor_loss' = Fin(0)
    /\ params' = flat_params(actor)
    /\ old_actor' = update_model(params')
    /\ flag' = FALSE
    /\ t' = One
    /\ i' = 0
    /\ writes' = 0
    /\ pc' = "ls_loop"
    /\ UNCHANGED <<cfg, iter, steps, epVars, trajectories, recent_rewards, actor,
                   saved, new_actor_loss, kl, ddpgVars>>

\* line 85: params + t * maximal_step
Candidate == FAdd(params, SVal(SMul(t, [m |-> maximal_step, e |-> 0])))

\* line 92: expected_improve *= t
ScaleExpected == SMul(expected_improve, t)

\* line 84: range(10) has a next value (AttemptsLeftOneMore: range(11))
AttemptsLeftOneMore == i <= MaxAttempts
AttemptsLeft == i < MaxAttempts

\* lines 84-96, one pass of the for loop up to the test: the candidate is
\* written into the live actor, the surrogate loss and the kl are evaluated
\* there, expected_improve *= t
LsAttempt ==
    /\ pc = "ls_loop" /\ AttemptsLeft
    /\ actor' = update_model(Candidate)
    /\ writes' = writes + 1
    /\ \E o \in Outcomes(Candidate) :
        /\ new_actor_loss' = o[1]
        /\ kl' = o[2]
    /\ expected_improve' = ScaleExpected
    /\ pc' = "ls_test"
    /\ UNCHANGED <<cfg, iter, steps, epVars, trajectories, recent_rewards, saved,
                   trained, returns, sHs, params, old_actor, maximal_step,
                   actor_loss, expected_improve_0, t, i, flag, ddpgVars>>

\* line 91
loss_improve == FSub(new_actor_loss, actor_loss)

\* line 105: kl < args.max_kl and improve_condition > alpha
\* (AcceptsNaN: the test written so that a NaN kl passes it)
AcceptsNaN ==
    \/ kl.c = "nan"
    \/ FLess(kl, Fin(MaxKL)) /\ RatioGT(loss_improve, expected_improve)
Accepts == FLess(kl, Fin(MaxKL)) /\ RatioGT(loss_improve, expected_improve)

\* lines 105-107: flag = True; break
LsAccept ==
    /\ pc = "ls_test" /\ Accepts
    /\ flag' = TRUE
    /\ pc' = "ls_end"
    /\ UNCHANGED <<cfg, iter, steps, epVars, trajectories, recent_rewards, actor,
                   saved, trained, returns, sHs, params, old_actor, maximal_step,
                   actor_loss, expected_improve_0, expected_improve,
                   new_actor_loss, kl, t, i, writes, ddpgVars>>

\* line 110: t *= beta, and on to the next pass
LsShrink ==
    /\ pc = "ls_test" /\ ~Accepts
    /\ t' = SMul(t, Beta)
    /\ i' = i + 1
    /\ pc' = "ls_loop"
    /\ UNCHANGED <<cfg, iter, steps, epVars, trajectories, recent_rewards, actor,
                   saved, trained, returns, sHs, params, old_actor, maximal_step,
                   actor_loss, expected_improve_0, expected_improve,
                   new_actor_loss, kl, flag, writes, ddpgVars>>

\* range(10) is used up
LsExhausted ==
    /\ pc = "ls_loop" /\ ~AttemptsLeft
    /\ pc' = "ls_end"
    /\ UNCHANGED <<cfg, iter, steps, epVars, trajectories, recent_rewards, actor,
                   saved, trained, lsVars, ddpgVars>>

\* line 113: flat_params(old_actor) (RevertParamsLive: flat_params(actor))
RevertParamsLive == flat_params(actor)
RevertParams == flat_params(old_actor)

\* lines 112-115: if not flag: params = flat_params(old_actor); update_model(actor, params)
LsRevert ==
    /\ pc = "ls_end" /\ ~flag
    /\ params' = RevertParams
    /\ actor' = update_model(params')
    /\ pc' = "ls_ret"
    /\ UNCHANGED <<cfg, iter, steps, epVars, trajectories, recent_rewards, saved,
                   trained, returns, sHs, old_actor, maximal_step, actor_loss,
                   expected_improve_0, expected_improve, new_actor_loss, kl, t, i,
                   flag, writes, ddpgVars>>

\* line 112 with flag set: the candidate stays
LsKeep ==
    /\ pc = "ls_end" /\ flag
    /\ pc' = "ls_ret"
    /\ UNCHANGED <<cfg, iter, steps, epVars, trajectories, recent_rewards, actor,
                   saved, trained, lsVars, ddpgVars>>

\* train_model returns to line 176 of main; its locals are gone
TrpoTrainReturn ==
    /\ pc = "ls_ret"
    /\ returns' = NoReturns
    /\ sHs' = 1
    /\ params' = Fin(0)
    /\ old_actor' = Fin(0)
    /\ maximal_step' = Fin(0)
    /\ actor_loss' = Fin(0)
    /\ expected_improve_0' = Fin(0)
    /\ expected_improve' = NoScaled
    /\ new_actor_loss' = Fin(0)
    /\ kl' = Fin(0)
    /\ t' = One
    /\ i' = 0
    /\ flag' = FALSE
    /\ writes' = 0
    /\ pc' = "goal"
    /\ UNCHANGED <<cfg, iter, steps, epVars, trajectories, recent_rewards, actor,
                   saved, trained, ddpgVars>>

\* lines 176-183: checkpoint and break
TrpoGoalReached ==
    /\ prog = "trpo" /\ pc = "goal" /\ MeanGT(recent_rewards, GoalScore)
    /\ saved' = saved + 1
    /\ pc' = AfterSave
    /\ UNCHANGED <<cfg, iter, steps, epVars, trajectories, recent_rewards, actor,
                   trained, lsVars, ddpgVars>>

\* line 176 false: the next pass of the for loop
TrpoGoalMissed ==
    /\ prog = "trpo" /\ pc = "goal" /\ ~MeanGT(recent_rewards, GoalScore)
    /\ pc' = "iter_start"
    /\ UNCHANGED <<cfg, iter, steps, epVars, trajectories, recent_rewards, actor,
                   saved, trained, lsVars, ddpgVars>>

(* ------------------------------- tnpg --------------------------------- *)

\* lines 75-77: for iter in range(args.max_iter_num): memory = deque(); steps = 0
TnpgIterStart ==
    /\ prog = "tnpg" /\ pc = "iter_start" /\ iter < MaxIterNum
    /\ iter' = iter + 1
    /\ trajectories' = FreshBatch
    /\ steps' = 0
    /\ trained' = 0
    /\ pc' = "rollout"
    /\ UNCHANGED <<cfg, epVars, recent_rewards, actor, saved, lsVars, ddpgVars>>

\* the for loop runs out
TnpgLoopEnd ==
    /\ prog = "tnpg" /\ pc = "iter_start" /\ iter >= MaxIterNum
    /\ pc' = "exit"
    /\ UNCHANGED <<cfg, iter, steps, epVars, trajectories, recent_rewards, actor,
                   saved, trained, lsVars, ddpgVars>>

\* lines 79-83: while steps < args.total_sample_size: score = 0; state = env.reset()
TnpgEpisodeStart ==
    /\ prog = "tnpg" /\ pc = "rollout" /\ QuotaOpen
    /\ score' = 0
    /\ ep_len' = 0
    /\ ep_step' = 0
    /\ after_done' = 0
    /\ ep_scores' = 0
    /\ pc' = "step"
    /\ UNCHANGED <<cfg, iter, steps, done, trajectories, recent_rewards, actor,
                   saved, trained, lsVars, ddpgVars>>

\* lines 85-106: one pass of "for _ in range(200)"
TnpgStep ==
    /\ prog = "tnpg" /\ pc = "step" /\ ep_step < EpCap
    /\ \E reward \in Rewards, d \in DoneAnswers :
        /\ ep_step' = ep_step + 1
        /\ steps' = steps + 1
        /\ ep_len' = ep_len + 1
        /\ after_done' = after_done + (IF ep_scores > 0 THEN 1 ELSE 0)
        /\ done' = d
        /\ trajectories' = Append(trajectories, Transition(reward, d))
        /\ score' = score + reward
        /\ recent_rewards' = IF d THEN AppendMax(recent_rewards, score + reward, WindowLen)
                             ELSE recent_rewards
        /\ ep_scores' = ep_scores + (IF d THEN 1 ELSE 0)
    /\ UNCHANGED <<cfg, pc, iter, actor, saved, trained, lsVars, ddpgVars>>

\* range(200) is used up: back to the while test
TnpgEpisodeEnd ==
    /\ prog = "tnpg" /\ pc = "step" /\ ep_step >= EpCap
    /\ pc' = "rollout"
    /\ UNCHANGED <<cfg, iter, steps, epVars, trajectories, recent_rewards, actor,
                   saved, trained, lsVars, ddpgVars>>

\* lines 112-113 and train_model, lines 30-53: new_params = params + 0.5 * step_dir
TnpgTrain ==
    /\ prog = "tnpg" /\ pc = "rollout" /\ ~QuotaOpen
    /\ trained' = trained + 1
    /\ \E step_dir \in SearchDirs :
        actor' = update_model(FAdd(flat_params(actor),
                                   SVal([m |-> Fin(step_dir), e |-> 1])))
    /\ pc' = "goal"
    /\ UNCHANGED <<cfg, iter, steps, epVars, trajectories, recent_rewards, saved,
                   lsVars, ddpgVars>>

\* lines 115-119: checkpoint and break
TnpgGoalReached ==
    /\ prog = "tnpg" /\ pc = "goal" /\ MeanGT(recent_rewards, GoalScore)
    /\ saved' = saved + 1
    /\ pc' = AfterSave
    /\ UNCHANGED <<cfg, iter, steps, epVars, trajectories, recent_rewards, actor,
                   trained, lsVars, ddpgVars>>

\* line 115 false: the next pass of the for loop
TnpgGoalMissed ==
    /\ prog = "tnpg" /\ pc = "goal" /\ ~MeanGT(recent_rewards, GoalScore)
    /\ pc' = "iter_start"
    /\ UNCHANGED <<cfg, iter, steps, epVars, trajectories, recent_rewards, actor,
                   saved, trained, lsVars, ddpgVars>>

(* ------------------------------- ddpg --------------------------------- *)

\* lines 104-109: for episode in range(args.max_iter_num): done = False; score = 0; env.reset()
DdpgEpisodeStart ==
    /\ prog = "ddpg" /\ pc = "iter_start" /\ iter < MaxIterNum
    /\ iter' = iter + 1
    /\ done' = FALSE
    /\ score' = 0
    /\ ep_len' = 0
    /\ after_done' = 0
    /\ ep_scores' = 0
    /\ pc' = "step"
    /\ UNCHANGED <<cfg, steps, ep_step, trajectories, recent_rewards, actor, saved,
                   trained, lsVars, ddpgVars>>

\* the for loop runs out
DdpgLoopEnd ==
    /\ prog = "ddpg" /\ pc = "iter_start" /\ iter >= MaxIterNum
    /\ pc' = "exit"
    /\ UNCHANGED <<cfg, iter, steps, epVars, trajectories, recent_rewards, actor,
                   saved, trained, lsVars, ddpgVars>>

\* lines 111-131: env.step, memory.append, score += reward
DdpgStep ==
    /\ prog = "ddpg" /\ pc = "step" /\ ~done
    /\ \E reward \in Rewards, d \in DoneAnswers :
        /\ steps' = steps + 1
        /\ ep_len' = ep_len + 1
        /\ after_done' = after_done + (IF ep_scores > 0 THEN 1 ELSE 0)
        /\ done' = d
        /\ memory' = AppendMax(memory, Transition(reward, d), MemCap)
        /\ score' = score + reward
    /\ pc' = "train_check"
    /\ UNCHANGED <<cfg, iter, ep_step, ep_scores, trajectories, recent_rewards,
                   actor, saved, trained, lsVars, mini_batch, opt_steps,
                   target_updates>>

\* line 133: if steps > args.batch_size (ShouldTrainAlways: the warm-up left out)
ShouldTrainAlways == steps > 0
ShouldTrain == steps > batch_size

\* line 134: random.sample(memory, args.batch_size), a ValueError when the
\* memory holds fewer
DdpgSample ==
    /\ prog = "ddpg" /\ pc = "train_check" /\ ShouldTrain
    /\ IF Len(memory) >= batch_size
       THEN /\ \E S \in SUBSET (1..Len(memory)) :
                /\ Cardinality(S) = batch_size
                /\ mini_batch' = S
            /\ pc' = "train"
       ELSE /\ mini_batch' = mini_batch
            /\ pc' = "crash"
    /\ UNCHANGED <<cfg, iter, steps, epVars, trajectories, recent_rewards, actor,
                   saved, trained, lsVars, memory, opt_steps, target_updates>>

\* line 133 false
DdpgSkipTrain ==
    /\ prog = "ddpg" /\ pc = "train_check" /\ ~ShouldTrain
    /\ pc' = "step_end"
    /\ UNCHANGED <<cfg, iter, steps, epVars, trajectories, recent_rewards, actor,
                   saved, trained, lsVars, ddpgVars>>

\* lines 136-139 and train_model, lines 37-71: one optimizer step on critic and actor
DdpgTrain ==
    /\ prog = "ddpg" /\ pc = "train"
    /\ opt_steps' = opt_steps + 1
    /\ pc' = "soft"
    /\ UNCHANGED <<cfg, iter, steps, epVars, trajectories, recent_rewards, actor,
                   saved, trained, lsVars, memory, mini_batch, target_updates>>

\* line 141: soft_target_update
DdpgSoftUpdate ==
    /\ prog = "ddpg" /\ pc = "soft"
    /\ target_updates' = target_updates + 1
    /\ pc' = "step_end"
    /\ UNCHANGED <<cfg, iter, steps, epVars, trajectories, recent_rewards, actor,
                   saved, trained, lsVars, memory, mini_batch, opt_steps>>

\* lines 143-144 and the while test of line 111
DdpgStepEnd ==
    /\ prog = "ddpg" /\ pc = "step_end"
    /\ recent_rewards' = IF done THEN AppendMax(recent_rewards, score, WindowLen)
                         ELSE recent_rewards
    /\ ep_scores' = ep_scores + (IF done THEN 1 ELSE 0)
    /\ pc' = IF done THEN "goal" ELSE "step"
    /\ UNCHANGED <<cfg, iter, steps, done, score, ep_len, ep_step, after_done,
                   trajectories, actor, saved, trained, lsVars, ddpgVars>>

\* lines 150-156: checkpoint and break
DdpgGoalReached ==
    /\ prog = "ddpg" /\ pc = "goal" /\ MeanGT(recent_rewards, GoalScore)
    /\ saved' = saved + 1
    /\ pc' = AfterSave
    /\ UNCHANGED <<cfg, iter, steps, epVars, trajectories, recent_rewards, actor,
                   trained, lsVars, ddpgVars>>

\* line 150 false: the next episode
DdpgGoalMissed ==
    /\ prog = "ddpg" /\ pc = "goal" /\ ~MeanGT(recent_rewards, GoalScore)
    /\ pc' = "iter_start"
    /\ UNCHANGED <<cfg, iter, steps, epVars, trajectories, recent_rewards, actor,
                   saved, trained, lsVars, ddpgVars>>

(* --------------------------- specification ---------------------------- *)

Next ==
    \/ TrpoIterStart
    \/ TrpoLoopEnd
    \/ TrpoEpisodeStart
    \/ TrpoStep
    \/ TrpoTrainEnter
    \/ LsAttempt
    \/ LsAccept
    \/ LsShrink
    \/ LsExhausted
    \/ LsRevert
    \/ LsKeep
    \/ TrpoTrainReturn
    \/ TrpoGoalReached
    \/ TrpoGoalMissed
    \/ TnpgIterStart
    \/ TnpgLoopEnd
    \/ TnpgEpisodeStart
    \/ TnpgStep
    \/ TnpgEpisodeEnd
    \/ TnpgTrain
    \/ TnpgGoalReached
    \/ TnpgGoalMissed
    \/ DdpgEpisodeStart
    \/ DdpgLoopEnd
    \/ DdpgStep
    \/ DdpgSample
    \/ DdpgSkipTrain
    \/ DdpgTrain
    \/ DdpgSoftUpdate
    \/ DdpgStepEnd
    \/ DdpgGoalReached
    \/ DdpgGoalMissed

Spec == Init /\ [][Next]_vars

(* ------------------------------ claims -------------------------------- *)

\* snapshot + 0.5^k * maximal_step
SnapshotCandidate(k) == FAdd(old_actor, SVal([m |-> maximal_step, e |-> k]))

\* kl < max_kl and (new - old) / (0.5^k * expected_improve_0) > alpha
SpecAccepts(k) ==
    /\ FLess(kl, Fin(MaxKL))
    /\ RatioGT(loss_improve, [m |-> expected_improve_0, e |-> k])

\* a.m * 2^-a.e and b.m * 2^-b.e are the same number
SameValue(a, b) == a.m = b.m /\ (a.e = b.e \/ ~IsFin(a.m) \/ a.m.v = 0)

\* C1: when all 10 attempts of the line search are rejected, train_model
\* returns with the live actor's parameters equal to the snapshot taken on
\* entry to the line search, whatever the kl and loss outcomes were.
C1_RevertOnExhaustion ==
    (pc = "ls_ret" /\ ~flag) => actor = old_actor

\* the search ran through all attempts with a finite step and was reverted
C1_Witness ==
    /\ pc = "ls_ret" /\ ~flag /\ writes = MaxAttempts
    /\ IsFin(maximal_step) /\ maximal_step # Fin(0)
    /\ iter = MaxIterNum /\ actor # Fin(0)

\* C2: on every attempt k the ratio compared against alpha has the
\* denominator t * expected_improve_0 with t = 0.5^k.
C2_DenominatorScaledByT ==
    pc = "ls_test" =>
        SameValue(expected_improve, SMul([m |-> expected_improve_0, e |-> 0], t))

\* C3: the candidate of attempt k is snapshot + 0.5^k * maximal_step, the
\* search stops at the first attempt with kl < max_kl and
\* (new - old) / (0.5^k * expected_improve_0) > alpha, and on acceptance the
\* live parameters at return are that attempt's candidate.
C3_StopsAtFirstPassingAttempt ==
    /\ pc = "ls_test" => actor = SnapshotCandidate(i)
    /\ (pc = "ls_loop" /\ i > 0) => ~SpecAccepts(i - 1)
    /\ (pc \in {"ls_end", "ls_ret"} /\ flag) =>
           (SpecAccepts(i) /\ actor = SnapshotCandidate(i))

\* C4: the line search writes at most 10 candidates and ends either Accepted
\* (flag set, the accepted candidate live) or Reverted (flag unset, snapshot
\* restored); Reverted follows exactly 10 rejected attempts, and once the loop
\* is left no further candidate can be written in that update.
C4_LineSearchStateMachine ==
    /\ writes <= MaxAttempts
    /\ i <= MaxAttempts
    /\ pc \in {"ls_end", "ls_ret"} => ~ENABLED LsAttempt
    /\ (pc = "ls_end" /\ ~flag) => (writes = MaxAttempts /\ i = MaxAttempts)
    /\ pc = "ls_ret" =>
           \/ flag /\ writes = i + 1 /\ actor = SnapshotCandidate(i)
           \/ ~flag /\ writes = MaxAttempts /\ i = MaxAttempts /\ actor = old_actor

\* the search is accepted on its last attempt
C4_Witness == pc = "ls_ret" /\ flag /\ writes = MaxAttempts

\* C5: with sHs <= 0 no attempt is accepted and train_model returns with the
\* live actor's parameters equal to those on entry; main goes on from there.
C5_NonPositiveCurvatureIsNoOp ==
    /\ (sHs <= 0 /\ pc \in {"ls_loop", "ls_test", "ls_end", "ls_ret"}) => ~flag
    /\ (sHs <= 0 /\ pc = "ls_ret") => (actor = old_actor /\ ENABLED TrpoTrainReturn)

\* an update whose maximal step is infinite has returned
C5_Witness ==
    /\ pc = "ls_ret" /\ sHs = 0 /\ maximal_step = PInf /\ writes = MaxAttempts
    /\ actor = old_actor

\* C6: in every iteration of the trpo and tnpg loops train_model is called
\* once, after the rollout has collected at least total_sample_size
\* transitions, on exactly the transitions of that iteration in the order of
\* collection.
C6_OneUpdateOnFreshBatch ==
    prog \in {"trpo", "tnpg"} =>
        /\ trained <= 1
        /\ pc \in {"rollout", "step"} => trained = 0
        /\ pc \in {"ls_loop", "ls_test", "ls_end", "ls_ret", "goal"} =>
            /\ trained = 1
            /\ Len(trajectories) >= TotalSampleSize
            /\ Len(trajectories) = steps
            /\ \A j \in 1..Len(trajectories) :
                   trajectories[j].it = iter /\ trajectories[j].n = j

\* the update of the last iteration ran on a batch larger than the quota
C6_Witness ==
    /\ pc = "goal" /\ iter = MaxIterNum /\ trained = 1
    /\ Len(trajectories) > TotalSampleSize

\* C7 as stated: the checkpoint is written at most once, after it nothing
\* runs, at most max_iter_num iterations run, and the checkpoint is written
\* if and only if the loop exits before max_iter_num iterations.
C7_SavedIffFewerIterations ==
    /\ saved <= 1
    /\ iter <= MaxIterNum
    /\ saved = 1 => pc = "exit"
    /\ pc = "exit" => (saved = 1 <=> iter < MaxIterNum)

\* C7 amended: the checkpoint is written at most once, after it nothing runs,
\* at most max_iter_num iterations run, and the checkpoint is written if and
\* only if the loop exits through the early stop (the rolling average
\* exceeds the goal), which can also happen in the last iteration; a loop
\* that exits before max_iter_num iterations has written it.
C7_EarlyStop ==
    /\ saved <= 1
    /\ iter <= MaxIterNum
    /\ saved = 1 => pc = "exit"
    /\ pc = "exit" => (saved = 1 <=> MeanGT(recent_rewards, GoalScore))
    /\ (pc = "exit" /\ iter < MaxIterNum) => saved = 1

\* the goal is reached in the last iteration
C7_Witness == pc = "exit" /\ saved = 1 /\ iter = MaxIterNum

\* C8: within an episode no env.step is issued after the environment has
\* reported done, and an episode appends at most one score.
C8_EpisodeEndsAtDone ==
    prog \in {"trpo", "tnpg"} => (after_done = 0 /\ ep_scores <= 1)

\* discounted rewards from transition k to the end of k's episode
RECURSIVE EpisodeReturn(_, _)
EpisodeReturn(batch, k) ==
    IF k > Len(batch) THEN 0
    ELSE batch[k].reward * RetScale
         + (IF batch[k].done THEN 0 ELSE EpisodeReturn(batch, k + 1) \div GammaDen)

\* rewards [1, 1, 1] with masks [1, 1, 0]
ExampleBatch ==
    <<[reward |-> 1, mask |-> 1], [reward |-> 1, mask |-> 1], [reward |-> 1, mask |-> 0]>>

\* the returns of the example, discount GammaDen = 2
ExampleReturns == get_returns(ExampleBatch)

\* C9: a recorded transition has mask 0 exactly when the environment reported
\* done; returns[k] = reward[k] + discount * mask[k] * returns[k+1]; a
\* transition that ended an episode has its own reward as return and a
\* return sums rewards of its own episode only; the example gives
\* [1.75, 1.5, 1.0].
C9_MaskStopsReturns ==
    /\ \A j \in 1..Len(trajectories) :
           trajectories[j].mask = (IF trajectories[j].done THEN 0 ELSE 1)
    /\ \A j \in 1..Len(memory) :
           memory[j].mask = (IF memory[j].done THEN 0 ELSE 1)
    /\ returns # NoReturns =>
        /\ Len(returns) = Len(trajectories)
        /\ \A k \in 1..Len(returns) :
            /\ returns[k] = trajectories[k].reward * RetScale
                   + (trajectories[k].mask
                        * (IF k < Len(returns) THEN returns[k + 1] ELSE 0)) \div GammaDen
            /\ trajectories[k].done => returns[k] = trajectories[k].reward * RetScale
            /\ returns[k] = EpisodeReturn(trajectories, k)
    /\ ExampleReturns = <<(7 * RetScale) \div 4, (3 * RetScale) \div 2, RetScale>>

\* returns of a batch whose first episode is one step long and is followed by
\* an episode with rewards
C9_Witness ==
    /\ returns # NoReturns /\ Len(trajectories) >= 3
    /\ trajectories[1].done /\ trajectories[1].reward = 1
    /\ ~trajectories[2].done /\ trajectories[2].reward = 1
    /\ trajectories[3].reward = 1
    /\ returns[1] = RetScale

\* C10: the ddpg memory never holds more than its maxlen, random.sample is
\* only called when the memory holds at least batch_size transitions, and
\* every train_model call is followed by one soft target update before the
\* next environment step.
C10_ReplayAndTargets ==
    prog = "ddpg" =>
        /\ Len(memory) <= MemCap
        /\ pc # "crash"
        /\ pc \in {"train", "soft"} =>
            /\ Len(memory) >= batch_size
            /\ Cardinality(mini_batch) = batch_size
            /\ mini_batch \subseteq 1..Len(memory)
        /\ pc = "soft" => opt_steps = target_updates + 1
        /\ pc # "soft" => opt_steps = target_updates

\* a full mini-batch drawn from a memory that has wrapped around
C10_Witness ==
    /\ prog = "ddpg" /\ pc = "soft" /\ batch_size = MemCap
    /\ Len(memory) = MemCap /\ steps > MemCap + 1 /\ opt_steps = 2

====
